---- MODULE Spec2Model ----
(***************************************************************************)
(* Model of build_taxa_lineage/build_taxa_line.py: the memoised single     *)
(* lookup build_lineage and the batch loop build_lineage_map, run against  *)
(* an external taxonomy database (ete4.NCBITaxa).                          *)
(*                                                                         *)
(* A Python str is a sequence of one-character strings, so that            *)
(* str.replace, the f-string and str.join are computed character by        *)
(* character.  Python's None is the one-element sequence <<"None">>, which *)
(* no str equals.  A dict is a function whose DOMAIN is its key set.       *)
(***************************************************************************)
EXTENDS Integers, Sequences, FiniteSets, TLC

VARIABLES
  db,           \* state of the external taxonomy database
  cache,        \* the lru_cache of build_lineage: taxid -> returned value
  pc,           \* "idle": no call in progress; "single": build_lineage has
                \* returned; "loop": build_lineage_map is in its loop; "done":
                \* it has returned; "raised": it has raised to its caller
  ncbi,         \* the local `ncbi` of the running / last call
  ret,          \* last build_lineage call: argument, returned value, cache hit
  printed,      \* lines printed by the running / last call
  taxids,       \* argument of the running / last build_lineage_map call
  i,            \* position of the batch loop in taxids
  lineage_map,  \* the local `lineage_map` of build_lineage_map
  lookups,      \* ids passed to ncbi.get_lineage by the batch loop, in order
  writes,       \* <<id, value>> stored into lineage_map by the loop, in order
  firstRet,     \* history: value returned by the first build_lineage(x)
  nExternal     \* history: times build_lineage(x) ran its body (NCBITaxa())

vars == <<db, cache, pc, ncbi, ret, printed, taxids, i, lineage_map,
          lookups, writes, firstRet, nExternal>>

----------------------------------------------------------------------------
(* Bounds *)

MaxBatch   == 3   \* longest list handed to build_lineage_map
MaxChain   == 2   \* longest freely chosen ancestor chain
MaxLookups == 2   \* cap on the per-id count of build_lineage body runs

----------------------------------------------------------------------------
(* Python values *)

None == <<"None">>

Space == " "
Underscore == "_"
Pipe == "|"
Tab == "\t"

EmptyDict == [k \in {} |-> None]

\* None among ranks, which are atomic strings
NoneRank == "None"

\* d.get(k), with the representation of None for d's values
DictGet(d, k, none) == IF k \in DOMAIN d THEN d[k] ELSE none

\* d[k] = v
DictSet(d, k, v) == [y \in (DOMAIN d) \cup {k} |-> IF y = k THEN v ELSE d[y]]

\* outcome of a call that may raise
Ok(v) == [ok |-> TRUE, val |-> v, cause |-> "none"]
Raise(c) == [ok |-> FALSE, val |-> None, cause |-> c]

----------------------------------------------------------------------------
(* rank_prefix and the string operations *)

\* variant: the commented-out "kingdom": "k" entry is live
rank_prefix_kingdom ==
  [r \in {"kingdom", "domain", "phylum", "class", "order", "family", "genus", "species"} |->
     CASE r = "kingdom" -> "k"
       [] r = "domain"  -> "d"
       [] r = "phylum"  -> "p"
       [] r = "class"   -> "c"
       [] r = "order"   -> "o"
       [] r = "family"  -> "f"
       [] r = "genus"   -> "g"
       [] r = "species" -> "s"]

rank_prefix ==
  [r \in {"domain", "phylum", "class", "order", "family", "genus", "species"} |->
     CASE r = "domain"  -> "d"
       [] r = "phylum"  -> "p"
       [] r = "class"   -> "c"
       [] r = "order"   -> "o"
       [] r = "family"  -> "f"
       [] r = "genus"   -> "g"
       [] r = "species" -> "s"]

\* variant: s.replace(old, new, 1)
ReplaceFirst(s, old, new) ==
  [k \in 1..Len(s) |->
     IF s[k] = old /\ (\A j \in 1..(k - 1) : s[j] # old) THEN new ELSE s[k]]

\* s.replace(old, new) for one-character old and new
Replace(s, old, new) == [k \in 1..Len(s) |-> IF s[k] = old THEN new ELSE s[k]]

\* f"{prefix}__{name}"
FString(prefix, name) == <<prefix, Underscore, Underscore>> \o name

\* sep.join(parts)
RECURSIVE Join(_, _)
Join(sep, parts) ==
  IF Len(parts) = 0 THEN <<>>
  ELSE IF Len(parts) = 1 THEN parts[1]
  ELSE parts[1] \o <<sep>> \o Join(sep, Tail(parts))

----------------------------------------------------------------------------
(* The external interface, as the code calls it.  A database state is a    *)
(* record: avail (NCBITaxa() succeeds), lineage (taxid -> ancestor chain,  *)
(* get_lineage raises off its domain), names and ranks (dicts over the     *)
(* taxonomy nodes that have one), translatorRaises and rankRaises (the     *)
(* name / rank query itself fails).                                        *)

NoHandle == [none |-> TRUE]

NCBITaxa(d) == IF d.avail THEN Ok(d) ELSE Raise("database unavailable")

get_lineage(h, taxid) ==
  IF taxid \in DOMAIN h.lineage THEN Ok(h.lineage[taxid])
  ELSE Raise("taxid not found")

Elems(s) == {s[k] : k \in 1..Len(s)}

get_taxid_translator(h, lineage) ==
  IF h.translatorRaises THEN Raise("translator failed")
  ELSE Ok([t \in Elems(lineage) \cap DOMAIN h.names |-> h.names[t]])

get_rank(h, lineage) ==
  IF h.rankRaises THEN Raise("rank query failed")
  ELSE Ok([t \in Elems(lineage) \cap DOMAIN h.ranks |-> h.ranks[t]])

----------------------------------------------------------------------------
(* build_lineage: the body under the lru_cache *)

\* the for loop of build_lineage, from position k with lineage_parts = parts
RECURSIVE SingleParts(_, _, _, _, _)
SingleParts(lineage, names, ranks, k, parts) ==
  IF k > Len(lineage) THEN Ok(parts)
  ELSE LET tid == lineage[k]
           rank == DictGet(ranks, tid, NoneRank)
       IN IF rank \in DOMAIN rank_prefix
          THEN LET prefix == rank_prefix[rank]
                   got == DictGet(names, tid, None)
               IN IF got = None
                  THEN Raise("AttributeError")
                  ELSE SingleParts(lineage, names, ranks, k + 1,
                         Append(parts, FString(prefix, Replace(got, Space, Underscore))))
          ELSE SingleParts(lineage, names, ranks, k + 1, parts)

\* variant: return "|".join(lineage_parts) or None
SingleResultOrNone(parts) == IF parts = <<>> THEN None ELSE Join(Pipe, parts)

\* return "|".join(lineage_parts)
SingleResult(parts) == Join(Pipe, parts)

\* the try block: the outcome and the handle it constructed
SingleTry(d, taxid) ==
  LET h == NCBITaxa(d) IN
  IF ~h.ok THEN [out |-> h, handle |-> NoHandle]
  ELSE [handle |-> h.val,
        out |->
          LET lineage == get_lineage(h.val, taxid) IN
          IF ~lineage.ok THEN lineage
          ELSE LET names == get_taxid_translator(h.val, lineage.val) IN
               IF ~names.ok THEN names
               ELSE LET ranks == get_rank(h.val, lineage.val) IN
                    IF ~ranks.ok THEN ranks
                    ELSE LET parts == SingleParts(lineage.val, names.val, ranks.val, 1, <<>>) IN
                         IF ~parts.ok THEN parts
                         ELSE Ok(SingleResult(parts.val))]

\* except Exception as e: print(...); return None
SingleExcept(taxid, cause) ==
  [val |-> None,
   printed |-> <<[msg |-> "Error processing taxid", taxid |-> taxid, cause |-> cause]>>]

\* one run of the undecorated function
SingleBody(d, taxid) ==
  LET t == SingleTry(d, taxid) IN
  IF t.out.ok THEN [val |-> t.out.val, printed |-> <<>>, handle |-> t.handle]
  ELSE [val |-> SingleExcept(taxid, t.out.cause).val,
        printed |-> SingleExcept(taxid, t.out.cause).printed,
        handle |-> t.handle]

\* variant: a failure is not memoised
CacheStoreSkipNone(c, taxid, val) == IF val = None THEN c ELSE DictSet(c, taxid, val)

\* variant: lru_cache(maxsize=1)
CacheStoreEvict(c, taxid, val) == DictSet(EmptyDict, taxid, val)

\* lru_cache(maxsize=None): store the returned value, never evict
CacheStore(c, taxid, val) == DictSet(c, taxid, val)

----------------------------------------------------------------------------
(* build_lineage_map: one iteration of the loop *)

\* variant: the comprehension formats names[tid] without the replace
RECURSIVE BatchPartsNoReplace(_, _, _, _)
BatchPartsNoReplace(lineage, names, ranks, k) ==
  IF k > Len(lineage) THEN Ok(<<>>)
  ELSE LET tid == lineage[k]
           rest == BatchPartsNoReplace(lineage, names, ranks, k + 1)
       IN IF DictGet(ranks, tid, NoneRank) \in DOMAIN rank_prefix
          THEN IF tid \notin DOMAIN names
               THEN Raise("KeyError")
               ELSE IF ~rest.ok THEN rest
               ELSE Ok(<<FString(rank_prefix[ranks[tid]], names[tid])>> \o rest.val)
          ELSE rest

\* the list comprehension over lineage, from position k
RECURSIVE BatchParts(_, _, _, _)
BatchParts(lineage, names, ranks, k) ==
  IF k > Len(lineage) THEN Ok(<<>>)
  ELSE LET tid == lineage[k]
           rest == BatchParts(lineage, names, ranks, k + 1)
       IN IF DictGet(ranks, tid, NoneRank) \in DOMAIN rank_prefix
          THEN IF tid \notin DOMAIN names
               THEN Raise("KeyError")
               ELSE IF ~rest.ok THEN rest
               ELSE Ok(<<FString(rank_prefix[ranks[tid]],
                                 Replace(names[tid], Space, Underscore))>> \o rest.val)
          ELSE rest

\* the try block of the loop body, on the handle h
BatchTry(h, taxid) ==
  LET lineage == get_lineage(h, taxid) IN
  IF ~lineage.ok THEN lineage
  ELSE LET names == get_taxid_translator(h, lineage.val) IN
       IF ~names.ok THEN names
       ELSE LET ranks == get_rank(h, lineage.val) IN
            IF ~ranks.ok THEN ranks
            ELSE LET parts == BatchParts(lineage.val, names.val, ranks.val, 1) IN
                 IF ~parts.ok THEN parts
                 ELSE Ok(Join(Pipe, parts.val))

\* the value stored under taxid and the line printed, if any
BatchItem(h, taxid) ==
  LET t == BatchTry(h, taxid) IN
  IF t.ok THEN [val |-> t.val, printed |-> <<>>]
  ELSE [val |-> None,
        printed |-> <<[msg |-> "[WARN] Failed for taxid", taxid |-> taxid, cause |-> t.cause]>>]

\* variant: a failed id is left out of the mapping
MapWriteSkipNone(m, taxid, val) == IF val = None THEN m ELSE DictSet(m, taxid, val)

\* lineage_map[taxid] = value
MapWrite(m, taxid, val) == DictSet(m, taxid, val)

----------------------------------------------------------------------------
(* Inputs: the ids callers ask for and the database states they meet *)

\* -1 is the "missing" sentinel of the module docstring; 1 is the root; 3 a species
TaxIds == {-1, 1, 3}

\* the lists handed to build_lineage_map
RECURSIVE SeqsUpTo(_, _)
SeqsUpTo(S, n) ==
  IF n = 0 THEN {<<>>}
  ELSE LET shorter == SeqsUpTo(S, n - 1)
       IN shorter \cup {Append(s, x) : s \in {t \in shorter : Len(t) = n - 1}, x \in S}

BatchInputs == SeqsUpTo(TaxIds, MaxBatch)

\* a small taxonomy: root (1) > Bac (2) > E c (3)
BaseDB ==
  [avail |-> TRUE,
   lineage |-> (1 :> <<1>>) @@ (3 :> <<1, 2, 3>>),
   names |-> (1 :> <<"r", "o", "o", "t">>) @@ (2 :> <<"B", "a", "c">>)
             @@ (3 :> <<"E", " ", "c">>),
   ranks |-> (1 :> "no rank") @@ (2 :> "domain") @@ (3 :> "species"),
   translatorRaises |-> FALSE,
   rankRaises |-> FALSE]

\* the states the database is seen in by the process
DBs ==
  { BaseDB,
    [BaseDB EXCEPT !.avail = FALSE],
    [BaseDB EXCEPT !.lineage = (1 :> <<1>>)],
    [BaseDB EXCEPT !.names = (1 :> <<"r", "o", "o", "t">>) @@ (2 :> <<"B", "a", "c">>)
                             @@ (3 :> <<"E", " ", "c", " ", " ", "K">>)],
    [BaseDB EXCEPT !.names = (1 :> <<"r", "o", "o", "t">>) @@ (3 :> <<"E", " ", "c">>)],
    [BaseDB EXCEPT !.ranks = (1 :> "no rank") @@ (2 :> "domain")],
    [BaseDB EXCEPT !.translatorRaises = TRUE],
    [BaseDB EXCEPT !.rankRaises = TRUE] }

\* the ids asked for when the chain, the names and the ranks are varied
FormatIds == {3}

\* a dict from a function f, leaving out the keys that f sends to `absent`
DictOf(f, absent) == [k \in {j \in DOMAIN f : f[j] # absent} |-> f[k]]

\* a database whose chain for the ids of FormatIds is <<1, ..., n>> with the given ranks
\* and names ("absent" / None: the node has none)
ChainDB(n, rankOf, nameOf) ==
  [avail |-> TRUE,
   lineage |-> [x \in FormatIds |-> [k \in 1..n |-> k]],
   names |-> DictOf(nameOf, None),
   ranks |-> DictOf(rankOf, "absent"),
   translatorRaises |-> FALSE,
   rankRaises |-> FALSE]

ShortRanks == {"domain", "genus", "species", "no rank", "kingdom", "absent"}
ShortNames == {<<>>, <<"a">>, <<"a", " ", "b", " ", "c">>, None}

\* every chain of n nodes over ShortRanks and ShortNames
ShortDBs(n) ==
  { ChainDB(n, r, nm) : r \in [1..n -> ShortRanks], nm \in [1..n -> ShortNames] }

SevenRanks == <<"domain", "phylum", "class", "order", "family", "genus", "species">>
SwappedRanks == <<"domain", "phylum", "class", "order", "family", "species", "genus">>
ExtraRanks == {"no rank", "kingdom", "genus", "absent"}
SpecialNames == {<<>>, <<"a", " ", " ", "b">>, <<"a", Tab, "b">>, <<"a", Pipe, "b">>, None}

\* s with x inserted after position p
InsertAt(s, p, x) == SubSeq(s, 1, p) \o <<x>> \o SubSeq(s, p + 1, Len(s))

\* rank sequences of full lineages: the seven ranks in taxonomic order, with
\* at most one further node
LongRankSeqs ==
  {SevenRanks} \cup {InsertAt(SevenRanks, p, x) : p \in 0..Len(SevenRanks), x \in ExtraRanks}

DefaultNames(n) == [k \in 1..n |-> <<"n">>]

\* full lineages: every node is named "n", but for at most one node; and the
\* lineage with genus and species exchanged
LongDBs ==
  UNION { { ChainDB(Len(rs), rs, DefaultNames(Len(rs))) }
          \cup { ChainDB(Len(rs), rs, [DefaultNames(Len(rs)) EXCEPT ![q] = nm])
                 : q \in 1..Len(rs), nm \in SpecialNames }
          : rs \in LongRankSeqs }
  \cup { ChainDB(Len(SwappedRanks), SwappedRanks, DefaultNames(Len(SwappedRanks))) }

----------------------------------------------------------------------------
(* State machine *)

NoRet == [taxid |-> 0, val |-> None, hit |-> FALSE]

InitCalls ==
  /\ cache = EmptyDict
  /\ pc = "idle"
  /\ ncbi = NoHandle
  /\ ret = NoRet
  /\ printed = <<>>
  /\ taxids = <<>>
  /\ i = 1
  /\ lineage_map = EmptyDict
  /\ lookups = <<>>
  /\ writes = <<>>
  /\ firstRet = EmptyDict
  /\ nExternal = [x \in TaxIds |-> 0]

Init == db \in DBs /\ InitCalls

\* build_lineage(taxid): a cache hit returns the stored value without running
\* the body; a miss runs the body once and stores what it returned
BuildLineage(taxid) ==
  /\ pc = "idle"
  /\ IF taxid \in DOMAIN cache
     THEN /\ ret' = [taxid |-> taxid, val |-> cache[taxid], hit |-> TRUE]
          /\ printed' = <<>>
          /\ ncbi' = NoHandle
          /\ UNCHANGED <<cache, nExternal>>
     ELSE /\ nExternal[taxid] < MaxLookups
          /\ LET r == SingleBody(db, taxid)
             IN /\ ret' = [taxid |-> taxid, val |-> r.val, hit |-> FALSE]
                /\ printed' = r.printed
                /\ ncbi' = r.handle
                /\ cache' = CacheStore(cache, taxid, r.val)
          /\ nExternal' = [nExternal EXCEPT ![taxid] = @ + 1]
  /\ firstRet' = IF taxid \in DOMAIN firstRet THEN firstRet
                 ELSE DictSet(firstRet, taxid, ret'.val)
  /\ pc' = "single"
  /\ UNCHANGED <<db, taxids, i, lineage_map, lookups, writes>>

\* build_lineage_map(ids), up to the loop: ncbi = NCBITaxa() is outside any
\* try, so its failure propagates to the caller
BuildLineageMapCall(ids) ==
  /\ pc = "idle"
  /\ LET h == NCBITaxa(db)
     IN IF h.ok THEN pc' = "loop" /\ ncbi' = h.val
        ELSE pc' = "raised" /\ ncbi' = NoHandle
  /\ taxids' = ids
  /\ i' = 1
  /\ lineage_map' = EmptyDict
  /\ UNCHANGED <<db, cache, ret, printed, lookups, writes, firstRet, nExternal>>

\* variant: the try encloses the loop, so a failure ends it
BatchStepAbort ==
  /\ pc = "loop"
  /\ i <= Len(taxids)
  /\ LET taxid == taxids[i]
         r == BatchItem(ncbi, taxid)
     IN /\ lookups' = Append(lookups, taxid)
        /\ lineage_map' = MapWrite(lineage_map, taxid, r.val)
        /\ writes' = Append(writes, <<taxid, r.val>>)
        /\ printed' = printed \o r.printed
        /\ i' = IF r.val = None THEN Len(taxids) + 1 ELSE i + 1
  /\ UNCHANGED <<db, cache, pc, ncbi, ret, taxids, firstRet, nExternal>>

\* variant: the loop takes a memoised build_lineage value when there is one
BatchStepCached ==
  /\ pc = "loop"
  /\ i <= Len(taxids)
  /\ LET taxid == taxids[i]
         r == BatchItem(ncbi, taxid)
         val == IF taxid \in DOMAIN cache THEN cache[taxid] ELSE r.val
     IN /\ lookups' = IF taxid \in DOMAIN cache THEN lookups ELSE Append(lookups, taxid)
        /\ lineage_map' = MapWrite(lineage_map, taxid, val)
        /\ writes' = Append(writes, <<taxid, val>>)
        /\ printed' = IF taxid \in DOMAIN cache THEN printed ELSE printed \o r.printed
  /\ i' = i + 1
  /\ UNCHANGED <<db, cache, pc, ncbi, ret, taxids, firstRet, nExternal>>

\* one iteration of `for taxid in taxids`
BatchStep ==
  /\ pc = "loop"
  /\ i <= Len(taxids)
  /\ LET taxid == taxids[i]
         r == BatchItem(ncbi, taxid)
     IN /\ lookups' = Append(lookups, taxid)
        /\ lineage_map' = MapWrite(lineage_map, taxid, r.val)
        /\ writes' = Append(writes, <<taxid, r.val>>)
        /\ printed' = printed \o r.printed
  /\ i' = i + 1
  /\ UNCHANGED <<db, cache, pc, ncbi, ret, taxids, firstRet, nExternal>>

\* return lineage_map
BatchReturn ==
  /\ pc = "loop"
  /\ i > Len(taxids)
  /\ pc' = "done"
  /\ UNCHANGED <<db, cache, ncbi, ret, printed, taxids, i, lineage_map,
                 lookups, writes, firstRet, nExternal>>

\* the caller has the result (or the exception) and goes on: the frame of the
\* finished call is gone
CallerResumes ==
  /\ pc \in {"single", "done", "raised"}
  /\ pc' = "idle"
  /\ ncbi' = NoHandle
  /\ ret' = NoRet
  /\ printed' = <<>>
  /\ taxids' = <<>>
  /\ i' = 1
  /\ lineage_map' = EmptyDict
  /\ lookups' = <<>>
  /\ writes' = <<>>
  /\ UNCHANGED <<db, cache, firstRet, nExternal>>

\* the database changes between calls (the program is single-threaded and
\* synchronous: nothing else runs while a call is in progress)
DBChange ==
  /\ pc = "idle"
  /\ db' \in DBs \ {db}
  /\ UNCHANGED <<cache, pc, ncbi, ret, printed, taxids, i, lineage_map,
                 lookups, writes, firstRet, nExternal>>

Next ==
  \/ \E taxid \in TaxIds : BuildLineage(taxid)
  \/ \E ids \in BatchInputs : BuildLineageMapCall(ids)
  \/ BatchStep
  \/ BatchReturn
  \/ CallerResumes
  \/ DBChange

Spec == Init /\ [][Next]_vars

\* one id resolved, singly and in a one-element batch, against every chain of
\* at most MaxChain nodes and every full lineage
InitFormat ==
  /\ \/ \E n \in 0..MaxChain : db \in ShortDBs(n)
     \/ db \in LongDBs
  /\ InitCalls

NextFormat ==
  \/ \E taxid \in FormatIds : BuildLineage(taxid)
  \/ \E taxid \in FormatIds : BuildLineageMapCall(<<taxid>>)
  \/ BatchStep
  \/ BatchReturn
  \/ CallerResumes

SpecFormat == InitFormat /\ [][NextFormat]_vars

----------------------------------------------------------------------------
(* Reference definitions used by the properties: the formatted lineage as  *)
(* the specification words it, computed independently of the operators     *)
(* above.                                                                  *)

Recognized == {SevenRanks[k] : k \in 1..Len(SevenRanks)}
RefPrefixes == <<"d", "p", "c", "o", "f", "g", "s">>
RefPrefix(rank) == RefPrefixes[CHOOSE k \in 1..Len(SevenRanks) : SevenRanks[k] = rank]

HasRecognizedRank(h, t) == t \in DOMAIN h.ranks /\ h.ranks[t] \in Recognized

\* the chain ids with a recognized rank, in chain order
RefKept(h, taxid) == SelectSeq(h.lineage[taxid], LAMBDA t : HasRecognizedRank(h, t))

RECURSIVE RefUnderscored(_)
RefUnderscored(name) ==
  IF name = <<>> THEN <<>>
  ELSE <<IF Head(name) = Space THEN Underscore ELSE Head(name)>> \o RefUnderscored(Tail(name))

RefToken(h, t) == <<RefPrefix(h.ranks[t]), Underscore, Underscore>> \o RefUnderscored(h.names[t])

RECURSIVE RefJoined(_, _, _)
RefJoined(h, kept, n) ==
  IF n = 0 THEN <<>>
  ELSE IF n = 1 THEN RefToken(h, kept[1])
  ELSE RefJoined(h, kept, n - 1) \o <<Pipe>> \o RefToken(h, kept[n])

RefFormat(h, taxid) == RefJoined(h, RefKept(h, taxid), Len(RefKept(h, taxid)))

\* every external call made for taxid on the handle h succeeds and every
\* recognized-rank ancestor has a name to format
LookupSucceeds(h, taxid) ==
  /\ taxid \in DOMAIN h.lineage
  /\ ~h.translatorRaises
  /\ ~h.rankRaises
  /\ \A t \in Elems(RefKept(h, taxid)) : t \in DOMAIN h.names

\* what a resolution of taxid on the handle h has to produce
Expected(h, taxid) == IF LookupSucceeds(h, taxid) THEN RefFormat(h, taxid) ELSE None

\* the failure build_lineage(taxid) meets first (h = NoHandle: no handle);
\* a recognized-rank ancestor without a name fails on None.replace
ExpectedCause(h, taxid) ==
  IF h = NoHandle THEN "database unavailable"
  ELSE IF taxid \notin DOMAIN h.lineage THEN "taxid not found"
  ELSE IF h.translatorRaises THEN "translator failed"
  ELSE IF h.rankRaises THEN "rank query failed"
  ELSE "AttributeError"

\* out.split(sep)
RECURSIVE Split(_, _)
Split(out, sep) ==
  IF \A k \in 1..Len(out) : out[k] # sep THEN <<out>>
  ELSE LET p == CHOOSE k \in 1..Len(out) : out[k] = sep /\ \A j \in 1..(k - 1) : out[j] # sep
       IN <<SubSeq(out, 1, p - 1)>> \o Split(SubSeq(out, p + 1, Len(out)), sep)

Whitespace == {Space, Tab}

\* token matches ^[dpcofgs]__\S+$ with the given prefix letter
TokenMatches(tok, prefix) ==
  /\ Len(tok) >= 4
  /\ tok[1] = prefix
  /\ tok[2] = Underscore
  /\ tok[3] = Underscore
  /\ \A k \in 4..Len(tok) : tok[k] \notin Whitespace

\* exactly seven tokens, domain to species
SevenTokens(out) ==
  LET toks == Split(out, Pipe)
  IN /\ Len(toks) = Len(SevenRanks)
     /\ \A k \in 1..Len(toks) : TokenMatches(toks[k], RefPrefixes[k])

\* some ancestor at each of the seven ranks
HasAllSeven(h, taxid) ==
  /\ taxid \in DOMAIN h.lineage
  /\ \A r \in Recognized : \E t \in Elems(h.lineage[taxid]) : t \in DOMAIN h.ranks /\ h.ranks[t] = r

\* exactly one ancestor at each of the seven ranks, domain to species down the
\* chain, each with a non-empty name free of "|" and of whitespace but spaces
WellFormedSeven(h, taxid) ==
  /\ taxid \in DOMAIN h.lineage
  /\ LET kept == RefKept(h, taxid)
     IN /\ [k \in 1..Len(kept) |-> h.ranks[kept[k]]] = SevenRanks
        /\ \A t \in Elems(kept) :
              /\ t \in DOMAIN h.names
              /\ h.names[t] # <<>>
              /\ \A c \in Elems(h.names[t]) : c # Pipe /\ c # Tab

\* what build_lineage(taxid) returns if called now
WouldReturn(taxid) ==
  IF taxid \in DOMAIN cache THEN cache[taxid] ELSE SingleBody(db, taxid).val

----------------------------------------------------------------------------
(* Properties *)

\* C1: when build_lineage_map returns, the loop has looked up every id of the
\* input, also those after a failing one; a failing id maps to None and every
\* other id to its formatted lineage, which does not depend on the list.
C1_BatchFailureIsolation ==
  pc = "done" =>
    /\ lookups = taxids
    /\ \A k \in 1..Len(taxids) :
         /\ taxids[k] \in DOMAIN lineage_map
         /\ lineage_map[taxids[k]] = Expected(ncbi, taxids[k])

C1_Witness ==
  /\ pc = "done"
  /\ Len(taxids) = 3
  /\ ~LookupSucceeds(ncbi, taxids[2])
  /\ LookupSucceeds(ncbi, taxids[1])
  /\ LookupSucceeds(ncbi, taxids[3])
  /\ taxids[1] # taxids[3]
  /\ lineage_map[taxids[2]] = None
  /\ lineage_map[taxids[3]] # None
  /\ lineage_map[taxids[3]] # <<>>

\* C2: build_lineage_map never raises to its caller: every call ends by
\* returning a mapping with a value for every requested id.
C2_BatchNeverRaises ==
  pc \in {"done", "raised"} =>
    /\ pc = "done"
    /\ DOMAIN lineage_map = Elems(taxids)

\* C3: a build_lineage call that runs its body returns None exactly when the
\* handle construction, a lookup or the formatting fails, and then prints one
\* line with the id and the cause; a successful call prints nothing and
\* returns a string, the empty one when no ancestor has a recognized rank.
C3_SingleFailureContained ==
  (pc = "single" /\ ~ret.hit) =>
    IF ncbi # NoHandle /\ LookupSucceeds(ncbi, ret.taxid)
    THEN /\ ret.val # None
         /\ printed = <<>>
         /\ (RefKept(ncbi, ret.taxid) = <<>> => ret.val = <<>>)
    ELSE /\ ret.val = None
         /\ Len(printed) = 1
         /\ printed[1].taxid = ret.taxid
         /\ printed[1].cause = ExpectedCause(ncbi, ret.taxid)

C3_Witness ==
  /\ pc = "single"
  /\ ~ret.hit
  /\ ncbi # NoHandle
  /\ ret.val = None
  /\ printed = <<[msg |-> "Error processing taxid", taxid |-> 3, cause |-> "AttributeError"]>>

\* C4: every build_lineage call returns what the first call with that id
\* returned, and the body (handle construction, get_lineage) runs at most
\* once per id.
C4_Idempotent ==
  /\ pc = "single" => ret.val = firstRet[ret.taxid]
  /\ \A x \in TaxIds : nExternal[x] <= 1

C4_Witness ==
  /\ pc = "single"
  /\ ret.hit
  /\ ret.val = None
  /\ db.avail
  /\ LookupSucceeds(db, ret.taxid)
  /\ nExternal[ret.taxid] = 1

\* C5: against one state of the database, a valid id resolves to the same
\* string through build_lineage and through build_lineage_map([x])[x],
\* whatever calls came before.
C5_SingleBatchEquivalent ==
  /\ pc = "done" =>
       \A x \in DOMAIN lineage_map :
         (db.avail /\ LookupSucceeds(db, x)) =>
           lineage_map[x] # None /\ lineage_map[x] = WouldReturn(x)
  /\ pc = "single" =>
       ((db.avail /\ LookupSucceeds(db, ret.taxid)) =>
           ret.val # None /\ ret.val = BatchItem(db, ret.taxid).val)

C5_Witness ==
  /\ pc = "done"
  /\ \E x \in DOMAIN cache \cap DOMAIN lineage_map :
        /\ lineage_map[x] = cache[x]
        /\ LookupSucceeds(db, x)
        /\ Len(RefKept(db, x)) >= 2
        /\ \E t \in Elems(RefKept(db, x)) : Space \in Elems(db.names[t])

\* C6: when build_lineage_map returns, the keys of the mapping are the
\* distinct ids of the input; one write was made per position, the value
\* under an id is the one written at its last occurrence, and all writes for
\* one id carry the same value.
C6_BatchKeySet ==
  pc = "done" =>
    /\ DOMAIN lineage_map = Elems(taxids)
    /\ Len(writes) = Len(taxids)
    /\ \A k \in 1..Len(taxids) :
         /\ writes[k][1] = taxids[k]
         /\ (\A j \in (k + 1)..Len(taxids) : taxids[j] # taxids[k])
              => lineage_map[taxids[k]] = writes[k][2]
         /\ \A j \in 1..Len(taxids) : taxids[j] = taxids[k] => writes[j][2] = writes[k][2]

C6_Witness ==
  /\ pc = "done"
  /\ Len(taxids) = 3
  /\ taxids[1] = taxids[3]
  /\ taxids[1] # taxids[2]
  /\ lineage_map[taxids[1]] = None
  /\ lineage_map[taxids[2]] # None

\* C7: a resolution succeeds whenever the lookups succeed and every
\* recognized-rank ancestor has a name, whatever the other ranks are, and its
\* result is the "|"-join, in chain order, of prefix__name with each space
\* turned into an underscore over the recognized-rank ancestors.
C7_FormatMatchesReference ==
  /\ pc = "single" => ret.val = Expected(db, ret.taxid)
  /\ pc = "done" => \A x \in DOMAIN lineage_map : lineage_map[x] = Expected(db, x)

C7_Witness ==
  /\ pc = "single"
  /\ ret.val # None
  /\ LookupSucceeds(db, ret.taxid)
  /\ Len(RefKept(db, ret.taxid)) >= 2
  /\ Len(RefKept(db, ret.taxid)) < Len(db.lineage[ret.taxid])
  /\ \E t \in Elems(RefKept(db, ret.taxid)) :
        Cardinality({k \in 1..Len(db.names[t]) : db.names[t][k] = Space}) >= 2

\* C8 as stated: some ancestor at each of the seven ranks gives exactly seven
\* well-formed tokens, domain to species.
C8_SevenTokensAsStated ==
  (pc = "single" /\ HasAllSeven(db, ret.taxid) /\ ret.val # None) => SevenTokens(ret.val)

\* C8: exactly one ancestor at each of the seven ranks, placed domain to
\* species in the chain and each named by a non-empty name free of "|" and of
\* whitespace other than spaces, gives exactly seven well-formed tokens,
\* domain to species.
C8_SevenTokens ==
  (pc = "single" /\ WellFormedSeven(db, ret.taxid)) =>
    ret.val # None /\ SevenTokens(ret.val)

C8_Witness ==
  /\ pc = "single"
  /\ ~ret.hit
  /\ WellFormedSeven(db, ret.taxid)
  /\ Len(db.lineage[ret.taxid]) > Len(SevenRanks)
  /\ \E t \in Elems(RefKept(db, ret.taxid)) : Space \in Elems(db.names[t])

\* C9: no step removes or changes a cache entry, and a call with a cached id
\* returns the stored value.
C9_CacheAppendOnly ==
  [][ /\ \A x \in DOMAIN cache : x \in DOMAIN cache' /\ cache'[x] = cache[x]
      /\ (pc' = "single" /\ ret'.taxid \in DOMAIN cache) => ret'.val = cache[ret'.taxid]
    ]_vars

C9_Witness ==
  /\ pc = "single"
  /\ ret.hit
  /\ ret.val # None
  /\ Cardinality(DOMAIN cache) = Cardinality(TaxIds)
  /\ SingleBody(db, ret.taxid).val # ret.val

\* C10: no step of build_lineage_map changes the cache; the loop looks up the
\* ids of the input once each, in input order, and every entry is what the
\* database handle answers, cached or not; a build_lineage call with an id
\* not in the cache, as after a batch that held it, runs its body.
C10_BatchIgnoresCache ==
  /\ [](pc \in {"loop", "done"} =>
          /\ lookups = SubSeq(taxids, 1, i - 1)
          /\ \A x \in DOMAIN lineage_map : lineage_map[x] = Expected(ncbi, x))
  /\ [][ /\ pc' \in {"loop", "done", "raised"} => cache' = cache
         /\ (pc' = "single" /\ pc = "idle" /\ ret'.taxid \notin DOMAIN cache)
              => ~ret'.hit /\ nExternal'[ret'.taxid] = nExternal[ret'.taxid] + 1
       ]_vars

C10_Witness ==
  /\ pc = "done"
  /\ \E x \in DOMAIN lineage_map \cap DOMAIN cache :
        /\ cache[x] # lineage_map[x]
        /\ Cardinality({k \in 1..Len(taxids) : taxids[k] = x}) = 2

====
